---- MODULE Spec2Model ----
(***************************************************************************)
(* Model of datatrasnfer.py: migrate_table, the chunked copy of one table  *)
(* from a source database to a target database.                            *)
(*                                                                         *)
(* migrate_table is one sequential procedure; pc is its position.  Every   *)
(* database call that talks to a server (connect, execute, fetchmany,      *)
(* commit, rollback) either returns or raises; both outcomes are in the    *)
(* model.  cursor() and close() are taken to return.  The two              *)
(* databases are modelled by what the DB-API promises: the source cursor   *)
(* yields the rows of the table in order, up to chunk_size per fetchmany;  *)
(* the target keeps the rows inserted since the last commit/rollback in an *)
(* open transaction (pending) and makes them visible (committed) on commit.*)
(* Rows are numbered 1..nrows in the order the source cursor yields them.  *)
(***************************************************************************)
EXTENDS Integers, Sequences, FiniteSets, TLC

\* ---------------------------------------------------------------- bounds
MaxRows == 5
MaxChunk == 3

\* number of columns the catalog reports for an existing table
NCols == 2

VARIABLES
    chunk_size,   \* parameter chunk_size of migrate_table
    nrows,        \* rows in the source table
    tableExists,  \* whether the source table exists in the source catalog
    pc,           \* position in migrate_table
    src_conn, tgt_conn, src_cur, tgt_cur,  \* handles: "none", "open", "closed"
    columns,      \* len(columns), -1 before introspection
    srcPos,       \* rows already yielded by the source cursor
    rows,         \* the chunk returned by the last fetchmany
    idx,          \* rows of the chunk whose insert has returned
    pending,      \* rows inserted in the open target transaction
    committed,    \* rows visible in the target table
    total,        \* local total
    chunk_num,    \* local chunk_num
    exc,          \* the call whose exception is being handled, or "none"
    log,          \* the records written by logging.info / logging.error
    exitStatus,   \* -1 while running, else the process exit status
    calls,        \* how often each database call was made
    faults,       \* the calls that raised, with chunk_num and idx at that time
    misuse,       \* a call was made on a handle that was not open
    fetch_size    \* the argument of the last fetchmany, 0 before the first

vars == <<chunk_size, nrows, tableExists, pc, src_conn, tgt_conn, src_cur,
          tgt_cur, columns, srcPos, rows, idx, pending, committed, total,
          chunk_num, exc, log, exitStatus, calls, faults, misuse,
          fetch_size>>

Ops == {"connect", "cursor", "execute", "fetchall", "fetchmany", "insert",
        "commit", "rollback", "src_cur.close", "src_conn.close",
        "tgt_cur.close", "tgt_conn.close"}

Min(a, b) == IF a < b THEN a ELSE b

Range(s) == {s[i] : i \in 1..Len(s)}

\* rows lo+1 .. lo+n, in cursor order
RowsFrom(lo, n) == [i \in 1..n |-> lo + i]

\* one more call of op
Called(op) == [calls EXCEPT ![op] = @ + 1]

\* op raised, in chunk chunk_num, after idx inserts of that chunk
Raised(op) == Append(faults, [op |-> op, chunk |-> chunk_num, idx |-> idx])

Logged(ev, k, n) == Append(log, [ev |-> ev, chunk |-> k, n |-> n])

\* a call on handle h when h is not open
Used(h) == misuse \/ h # "open"

\* a fixed size passed instead of the parameter
FetchSizeFixed == MaxChunk

\* line 43: the argument of src_cur.fetchmany(chunk_size)
FetchSize == chunk_size

\* the loop left at the first chunk shorter than chunk_size
IsEmptyShort(rs) == Len(rs) < chunk_size

\* the test of line 44 dropped: an empty chunk is handled like any other
IsEmptyNever(rs) == FALSE

\* line 44: if not rows
IsEmpty(rs) == Len(rs) = 0

\* counting chunks instead of rows
NewTotalPerChunk(t, rs) == t + 1

\* line 53: total += len(rows)
NewTotal(t, rs) == t + Len(rs)

\* the rollback missing: the inserted rows stay in the open transaction
RolledBackKept(p) == p

\* line 56: tgt_conn.rollback() discards the open transaction
RolledBack(p) == <<>>

\* a failed pull handled by pulling again
HandlerRetryRead(op) ==
    IF op \in {"insert", "commit"} THEN "rollback"
    ELSE IF op = "fetchmany" THEN "fetch" ELSE "except"

\* a failed connect or catalog lookup ignored: the procedure goes on to the loop
HandlerIgnoreSetup(op) ==
    IF op \in {"insert", "commit"} THEN "rollback"
    ELSE IF op \in {"connect", "execute"} THEN "fetch" ELSE "except"

\* the inner handler missing its rollback: a failed insert or commit goes
\* straight on to the next pull
HandlerNoRollback(op) == IF op \in {"insert", "commit"} THEN "fetch" ELSE "except"

\* lines 25, 49, 55, 68: where an exception raised by call op is handled: the
\* inner try covers the inserts and the commit, the outer try everything else,
\* the inner handler included
Handler(op) == IF op \in {"insert", "commit"} THEN "rollback" ELSE "except"

\* the alternative the comment of lines 58-60 names: sys.exit(1)
AfterBatchErrorAbort == "except"

\* lines 57-61: after the error record the handler falls through to the loop head
AfterBatchError == "fetch"

\* a close that is not made
CloseHandleSkipped(h) == h

\* lines 64-67: x.close()
CloseHandle(h) == "closed"

\* line 70: sys.exit(1)
FatalStatus == 1

Init ==
    /\ chunk_size \in 1..MaxChunk
    /\ tableExists \in BOOLEAN
    /\ nrows \in (IF tableExists THEN 0..MaxRows ELSE {0})
    /\ pc = "start"
    /\ src_conn = "none" /\ tgt_conn = "none"
    /\ src_cur = "none" /\ tgt_cur = "none"
    /\ columns = -1
    /\ srcPos = 0
    /\ rows = <<>>
    /\ idx = 0
    /\ pending = <<>>
    /\ committed = <<>>
    /\ total = 0
    /\ chunk_num = 0
    /\ exc = "none"
    /\ log = <<>>
    /\ exitStatus = -1
    /\ calls = [op \in Ops |-> 0]
    /\ faults = <<>>
    /\ misuse = FALSE
    /\ fetch_size = 0

\* lines 22-23: setup_logger, the start record
Start ==
    /\ pc = "start"
    /\ log' = Logged("start", 0, chunk_size)
    /\ pc' = "connect_src"
    /\ UNCHANGED fetch_size
    /\ UNCHANGED <<chunk_size, nrows, tableExists, src_conn, tgt_conn, src_cur,
                   tgt_cur, columns, srcPos, rows, idx, pending, committed,
                   total, chunk_num, exc, exitStatus, calls, faults, misuse>>

\* line 26: src_conn = get_connection(source_conf)
ConnectSource ==
    /\ pc = "connect_src"
    /\ calls' = Called("connect")
    /\ \/ /\ src_conn' = "open"
          /\ pc' = "connect_tgt"
          /\ UNCHANGED <<exc, faults>>
       \/ /\ exc' = "connect_src"
          /\ faults' = Raised("connect_src")
          /\ pc' = Handler("connect")
          /\ UNCHANGED src_conn
    /\ UNCHANGED fetch_size
    /\ UNCHANGED <<chunk_size, nrows, tableExists, tgt_conn, src_cur, tgt_cur,
                   columns, srcPos, rows, idx, pending, committed, total,
                   chunk_num, log, exitStatus, misuse>>

\* line 27: tgt_conn = get_connection(target_conf)
ConnectTarget ==
    /\ pc = "connect_tgt"
    /\ calls' = Called("connect")
    /\ \/ /\ tgt_conn' = "open"
          /\ pc' = "cursor_src"
          /\ UNCHANGED <<exc, faults>>
       \/ /\ exc' = "connect_tgt"
          /\ faults' = Raised("connect_tgt")
          /\ pc' = Handler("connect")
          /\ UNCHANGED tgt_conn
    /\ UNCHANGED fetch_size
    /\ UNCHANGED <<chunk_size, nrows, tableExists, src_conn, src_cur, tgt_cur,
                   columns, srcPos, rows, idx, pending, committed, total,
                   chunk_num, log, exitStatus, misuse>>

\* line 28: src_cur = src_conn.cursor()
OpenSourceCursor ==
    /\ pc = "cursor_src"
    /\ calls' = Called("cursor")
    /\ misuse' = Used(src_conn)
    /\ src_cur' = "open"
    /\ pc' = "cursor_tgt"
    /\ UNCHANGED fetch_size
    /\ UNCHANGED <<chunk_size, nrows, tableExists, src_conn, tgt_conn, tgt_cur,
                   columns, srcPos, rows, idx, pending, committed, total,
                   chunk_num, exc, log, exitStatus, faults>>

\* line 29: tgt_cur = tgt_conn.cursor()
OpenTargetCursor ==
    /\ pc = "cursor_tgt"
    /\ calls' = Called("cursor")
    /\ misuse' = Used(tgt_conn)
    /\ tgt_cur' = "open"
    /\ pc' = "introspect"
    /\ UNCHANGED fetch_size
    /\ UNCHANGED <<chunk_size, nrows, tableExists, src_conn, tgt_conn, src_cur,
                   columns, srcPos, rows, idx, pending, committed, total,
                   chunk_num, exc, log, exitStatus, faults>>

\* lines 31-37: the catalog lookup, columns, cols_str, placeholders.  A table
\* the catalog does not know yields an empty column list, not an exception.
Introspect ==
    /\ pc = "introspect"
    /\ misuse' = Used(src_cur)
    /\ \/ /\ calls' = [calls EXCEPT !["execute"] = @ + 1, !["fetchall"] = @ + 1]
          /\ columns' = IF tableExists THEN NCols ELSE 0
          /\ pc' = "select"
          /\ UNCHANGED <<exc, faults>>
       \/ /\ calls' = Called("execute")
          /\ exc' = "introspect"
          /\ faults' = Raised("introspect")
          /\ pc' = Handler("execute")
          /\ UNCHANGED columns
    /\ UNCHANGED fetch_size
    /\ UNCHANGED <<chunk_size, nrows, tableExists, src_conn, tgt_conn, src_cur,
                   tgt_cur, srcPos, rows, idx, pending, committed, total,
                   chunk_num, log, exitStatus>>

\* lines 39-41: the select over the source table, total = 0, chunk_num = 0.
\* The select of a table that does not exist raises.
DataSelect ==
    /\ pc = "select"
    /\ misuse' = Used(src_cur)
    /\ calls' = Called("execute")
    /\ \/ /\ tableExists
          /\ total' = 0
          /\ chunk_num' = 0
          /\ pc' = "fetch"
          /\ UNCHANGED <<exc, faults>>
       \/ /\ exc' = "select"
          /\ faults' = Raised("select")
          /\ pc' = Handler("execute")
          /\ UNCHANGED <<total, chunk_num>>
    /\ UNCHANGED fetch_size
    /\ UNCHANGED <<chunk_size, nrows, tableExists, src_conn, tgt_conn, src_cur,
                   tgt_cur, columns, srcPos, rows, idx, pending, committed,
                   log, exitStatus>>

\* lines 43-48: rows = src_cur.fetchmany(chunk_size); an empty chunk leaves the
\* loop, any other chunk is numbered and announced
FetchMany ==
    /\ pc = "fetch"
    /\ misuse' = Used(src_cur)
    /\ calls' = Called("fetchmany")
    /\ fetch_size' = FetchSize
    /\ \/ LET n == Min(FetchSize, nrows - srcPos) IN
          /\ rows' = RowsFrom(srcPos, n)
          /\ srcPos' = srcPos + n
          /\ idx' = 0
          /\ IF IsEmpty(RowsFrom(srcPos, n))
                THEN /\ pc' = "final_log"
                     /\ UNCHANGED <<chunk_num, log>>
                ELSE /\ chunk_num' = chunk_num + 1
                     /\ log' = Logged("chunk", chunk_num + 1, n)
                     /\ pc' = "insert"
          /\ UNCHANGED <<exc, faults>>
       \/ /\ exc' = "fetchmany"
          /\ faults' = Raised("fetchmany")
          /\ pc' = Handler("fetchmany")
          /\ UNCHANGED <<rows, srcPos, idx, chunk_num, log>>
    /\ UNCHANGED <<chunk_size, nrows, tableExists, src_conn, tgt_conn, src_cur,
                   tgt_cur, columns, pending, committed, total, exitStatus>>

\* lines 50-51: tgt_cur.execute(insert_sql, row) for the next row of the chunk
InsertRow ==
    /\ pc = "insert"
    /\ idx < Len(rows)
    /\ misuse' = Used(tgt_cur)
    /\ calls' = Called("insert")
    /\ \/ /\ pending' = Append(pending, rows[idx + 1])
          /\ idx' = idx + 1
          /\ pc' = "insert"
          /\ UNCHANGED <<exc, faults>>
       \/ /\ exc' = "insert"
          /\ faults' = Raised("insert")
          /\ pc' = Handler("insert")
          /\ UNCHANGED <<pending, idx>>
    /\ UNCHANGED fetch_size
    /\ UNCHANGED <<chunk_size, nrows, tableExists, src_conn, tgt_conn, src_cur,
                   tgt_cur, columns, srcPos, rows, committed, total, chunk_num,
                   log, exitStatus>>

\* lines 52-54, once the for loop has run through the chunk: tgt_conn.commit(),
\* total += len(rows), the commit record.
\* A commit that raises leaves the transaction uncommitted.
Commit ==
    /\ pc = "insert"
    /\ idx = Len(rows)
    /\ misuse' = Used(tgt_conn)
    /\ calls' = Called("commit")
    /\ \/ /\ committed' = committed \o pending
          /\ pending' = <<>>
          /\ total' = NewTotal(total, rows)
          /\ log' = Logged("commit", chunk_num, NewTotal(total, rows))
          /\ pc' = "fetch"
          /\ UNCHANGED <<exc, faults>>
       \/ /\ exc' = "commit"
          /\ faults' = Raised("commit")
          /\ pc' = Handler("commit")
          /\ UNCHANGED <<committed, pending, total, log>>
    /\ UNCHANGED fetch_size
    /\ UNCHANGED <<chunk_size, nrows, tableExists, src_conn, tgt_conn, src_cur,
                   tgt_cur, columns, srcPos, rows, idx, chunk_num, exitStatus>>

\* lines 55-57: the handler of the inner try: tgt_conn.rollback(), then the
\* error record; the loop goes on.  A rollback that raises leaves the handler
\* and is caught by the outer except.
Rollback ==
    /\ pc = "rollback"
    /\ misuse' = Used(tgt_conn)
    /\ calls' = Called("rollback")
    /\ \/ /\ pending' = RolledBack(pending)
          /\ log' = Logged("error", chunk_num, 0)
          /\ exc' = "none"
          /\ pc' = AfterBatchError
          /\ UNCHANGED faults
       \/ /\ exc' = "rollback"
          /\ faults' = Raised("rollback")
          /\ pc' = Handler("rollback")
          /\ UNCHANGED <<pending, log>>
    /\ UNCHANGED fetch_size
    /\ UNCHANGED <<chunk_size, nrows, tableExists, src_conn, tgt_conn, src_cur,
                   tgt_cur, columns, srcPos, rows, idx, committed, total,
                   chunk_num, exitStatus>>

\* line 63: the final record with the cumulative total
FinalLog ==
    /\ pc = "final_log"
    /\ log' = Logged("final", chunk_num, total)
    /\ pc' = "close_src_cur"
    /\ UNCHANGED fetch_size
    /\ UNCHANGED <<chunk_size, nrows, tableExists, src_conn, tgt_conn,
                   src_cur, tgt_cur, columns, srcPos, rows, idx, pending,
                   committed, total, chunk_num, exc, exitStatus, calls,
                   faults, misuse>>

\* line 64: src_cur.close()
CloseSourceCursor ==
    /\ pc = "close_src_cur"
    /\ calls' = Called("src_cur.close")
    /\ src_cur' = CloseHandle(src_cur)
    /\ pc' = "close_src_conn"
    /\ UNCHANGED fetch_size
    /\ UNCHANGED <<chunk_size, nrows, tableExists, src_conn, tgt_conn,
                   tgt_cur, columns, srcPos, rows, idx, pending, committed,
                   total, chunk_num, exc, log, exitStatus, faults, misuse>>

\* line 65: src_conn.close()
CloseSourceConnection ==
    /\ pc = "close_src_conn"
    /\ calls' = Called("src_conn.close")
    /\ src_conn' = CloseHandle(src_conn)
    /\ pc' = "close_tgt_cur"
    /\ UNCHANGED fetch_size
    /\ UNCHANGED <<chunk_size, nrows, tableExists, tgt_conn, src_cur, tgt_cur,
                   columns, srcPos, rows, idx, pending, committed, total,
                   chunk_num, exc, log, exitStatus, faults, misuse>>

\* line 66: tgt_cur.close()
CloseTargetCursor ==
    /\ pc = "close_tgt_cur"
    /\ calls' = Called("tgt_cur.close")
    /\ tgt_cur' = CloseHandle(tgt_cur)
    /\ pc' = "close_tgt_conn"
    /\ UNCHANGED fetch_size
    /\ UNCHANGED <<chunk_size, nrows, tableExists, src_conn, tgt_conn,
                   src_cur, columns, srcPos, rows, idx, pending, committed,
                   total, chunk_num, exc, log, exitStatus, faults, misuse>>

\* line 67: tgt_conn.close(); closing a connection discards its open transaction
CloseTargetConnection ==
    /\ pc = "close_tgt_conn"
    /\ calls' = Called("tgt_conn.close")
    /\ tgt_conn' = CloseHandle(tgt_conn)
    /\ pending' = <<>>
    /\ pc' = "return"
    /\ UNCHANGED fetch_size
    /\ UNCHANGED <<chunk_size, nrows, tableExists, src_conn, src_cur, tgt_cur,
                   columns, srcPos, rows, idx, committed, total, chunk_num,
                   exc, log, exitStatus, faults, misuse>>

\* lines 88-93: migrate_table returns to the script, which ends: exit status 0
Return ==
    /\ pc = "return"
    /\ exitStatus' = 0
    /\ pc' = "done"
    /\ UNCHANGED fetch_size
    /\ UNCHANGED <<chunk_size, nrows, tableExists, src_conn, tgt_conn,
                   src_cur, tgt_cur, columns, srcPos, rows, idx, pending,
                   committed, total, chunk_num, exc, log, calls, faults,
                   misuse>>

\* lines 68-70: the outer handler: the terminal error record, sys.exit(1)
FatalHandler ==
    /\ pc = "except"
    /\ log' = Logged("fatal", chunk_num, 0)
    /\ exitStatus' = FatalStatus
    /\ pc' = "done"
    /\ UNCHANGED fetch_size
    /\ UNCHANGED <<chunk_size, nrows, tableExists, src_conn, tgt_conn,
                   src_cur, tgt_cur, columns, srcPos, rows, idx, pending,
                   committed, total, chunk_num, exc, calls, faults, misuse>>

Next ==
    \/ Start
    \/ ConnectSource
    \/ ConnectTarget
    \/ OpenSourceCursor
    \/ OpenTargetCursor
    \/ Introspect
    \/ DataSelect
    \/ FetchMany
    \/ InsertRow
    \/ Commit
    \/ Rollback
    \/ FinalLog
    \/ CloseSourceCursor
    \/ CloseSourceConnection
    \/ CloseTargetCursor
    \/ CloseTargetConnection
    \/ Return
    \/ FatalHandler

Spec == Init /\ [][Next]_vars

\* the procedure is one thread that runs until the process ends
FairSpec == Spec /\ WF_vars(Next)

\* ------------------------------------------------------------ vocabulary

Ceil(a, b) == (a + b - 1) \div b

\* the chunk a row belongs to, rows being pulled chunk_size at a time
BatchOf(r) == ((r - 1) \div chunk_size) + 1

FaultOps == {faults[i].op : i \in 1..Len(faults)}

\* the chunks in which call op raised
FailedChunks(op) == {faults[i].chunk : i \in {j \in 1..Len(faults) : faults[j].op = op}}

LogOf(ev) == SelectSeq(log, LAMBDA e : e.ev = ev)

LastLog == log[Len(log)]

\* the last pull returned the empty chunk
Exhausted ==
    /\ calls["fetchmany"] = chunk_num + 1
    /\ "fetchmany" \notin FaultOps
    /\ rows = <<>>

Terminated == pc = "done"

\* the terminal states of the orchestrator
Completed == Terminated /\ exitStatus = 0 /\ calls["rollback"] = 0

CompletedWithErrors == Terminated /\ exitStatus = 0 /\ calls["rollback"] > 0

Aborted == Terminated /\ exitStatus # 0

\* -------------------------------------------------------------- claims

\* C1: commit atomicity.  No row of a chunk in which an insert raised is ever
\* visible in the target, the rows inserted before the failing row included;
\* and whenever the loop is back at its head the target transaction is empty,
\* so no such row can become visible later.
C1_CommitAtomicity ==
    /\ \A r \in Range(committed) : BatchOf(r) \notin FailedChunks("insert")
    /\ (pc = "fetch" => pending = <<>>)

\* a chunk whose second or later insert raised has been rolled back and a later
\* chunk has been committed
C1_Witness ==
    /\ \E i \in 1..Len(faults) :
          /\ faults[i].op = "insert"
          /\ faults[i].idx >= 1
          /\ \E j \in 1..Len(log) :
                /\ log[j].ev = "commit"
                /\ log[j].chunk > faults[i].chunk

\* C2: a run in which no call raises transfers exactly the nrows rows, in
\* ceil(nrows / chunk_size) chunks of chunk_size rows (the last one of the
\* remainder), with as many commits, no rollback, and reports total = nrows.
C2_FaultFreeRun ==
    (Terminated /\ faults = <<>>) =>
        LET n == Ceil(nrows, chunk_size)
            sizes == LogOf("chunk")
            last == IF nrows % chunk_size = 0 THEN chunk_size
                    ELSE nrows % chunk_size
        IN  /\ committed = RowsFrom(0, nrows)
            /\ chunk_num = n
            /\ Len(sizes) = n
            /\ \A i \in 1..n : sizes[i].chunk = i
            /\ \A i \in 1..(n - 1) : sizes[i].n = chunk_size
            /\ n > 0 => sizes[n].n = last
            /\ calls["commit"] = n
            /\ calls["rollback"] = 0
            /\ calls["insert"] = nrows
            /\ total = nrows
            /\ LastLog = [ev |-> "final", chunk |-> n, n |-> nrows]
            /\ exitStatus = 0

\* 5 rows in chunks of 2: chunks of 2, 2 and 1
C2_Witness ==
    /\ Terminated /\ faults = <<>>
    /\ nrows = 5 /\ chunk_size = 2
    /\ chunk_num = 3

C4_ReleasedOnEveryExit ==
    Terminated =>
        \A h \in {src_conn, tgt_conn, src_cur, tgt_cur} : h # "open"

SetupFaults == {"connect_src", "connect_tgt", "introspect"}

\* C5: fatal setup path.  Once a connect or the catalog lookup has raised, no
\* chunk is pulled, nothing is inserted or committed, the only step left is the
\* outer handler, which writes the terminal error record and exits with status
\* 1; and after a failed source connect no target connection is made.
C5_FatalSetup ==
    (faults # <<>> /\ faults[1].op \in SetupFaults) =>
        /\ calls["fetchmany"] = 0
        /\ calls["insert"] = 0
        /\ calls["commit"] = 0
        /\ chunk_num = 0
        /\ committed = <<>>
        /\ pc \in {"except", "done"}
        /\ Terminated =>
              /\ exitStatus = 1
              /\ LastLog.ev = "fatal"
              /\ Len(LogOf("fatal")) = 1
        /\ faults[1].op = "connect_src" =>
              /\ tgt_conn = "none"
              /\ calls["connect"] = 1

\* the process has ended after the source connect raised
C5_Witness ==
    /\ Terminated
    /\ faults # <<>> /\ faults[1].op = "connect_src"

WriteOps == {"insert", "commit", "rollback"}

\* C6: containment of write errors.  No exception raised by an insert, a commit
\* or the rollback handling them reaches the outer handler or ends the process.
C6_WriteErrorsContained ==
    exc \in WriteOps => pc \notin {"except", "done"}

FatalFaults == {"connect_src", "connect_tgt", "introspect", "select", "fetchmany"}

\* C7: process exit status.  The status is non-zero exactly when a connect, the
\* catalog lookup or a read of the source raised; every run that reached the
\* empty chunk ends with status 0.
C7_ExitStatus ==
    Terminated =>
        /\ (exitStatus # 0) <=> (FaultOps \cap FatalFaults # {})
        /\ Exhausted => exitStatus = 0

\* C8: empty table.  When the first pull returns no rows there is no second
\* pull, no insert, commit or rollback is made, the final record reports 0 and
\* the run ends Completed with status 0.
C8_EmptyTable ==
    (nrows = 0 /\ calls["fetchmany"] >= 1 /\ "fetchmany" \notin FaultOps) =>
        /\ calls["fetchmany"] = 1
        /\ chunk_num = 0
        /\ calls["insert"] = 0
        /\ calls["commit"] = 0
        /\ calls["rollback"] = 0
        /\ committed = <<>> /\ pending = <<>>
        /\ total = 0
        /\ LogOf("error") = <<>> /\ LogOf("fatal") = <<>>
        /\ Terminated =>
              /\ Completed
              /\ LastLog = [ev |-> "final", chunk |-> 0, n |-> 0]

C8_Witness ==
    /\ Terminated
    /\ nrows = 0 /\ calls["fetchmany"] = 1 /\ "fetchmany" \notin FaultOps

CloseOps == {"src_cur.close", "src_conn.close", "tgt_cur.close", "tgt_conn.close"}

\* C9: non-fatal terminal states.  After the empty chunk the only steps are the
\* final record, which carries the cumulative total, and then the four closes;
\* no handle is closed before the final record or more than once; when the
\* process ends all four handles are closed, each by one close; and no call is
\* ever made on a handle that is not open.
C9_NonFatalTerminal ==
    /\ ~misuse
    /\ \A c \in CloseOps : calls[c] <= 1
    /\ (\E c \in CloseOps : calls[c] > 0) =>
          /\ Exhausted
          /\ LastLog = [ev |-> "final", chunk |-> chunk_num, n |-> total]
          /\ Len(LogOf("final")) = 1
    /\ Exhausted =>
          pc \in {"final_log", "close_src_cur", "close_src_conn",
                  "close_tgt_cur", "close_tgt_conn", "return", "done"}
    /\ (Exhausted /\ Terminated) =>
          /\ \A h \in {src_conn, tgt_conn, src_cur, tgt_cur} : h = "closed"
          /\ \A c \in CloseOps : calls[c] = 1
          /\ total = Len(committed)
          /\ exitStatus = 0

\* the run ended after the empty chunk, with a chunk committed and one rolled back
C9_Witness ==
    /\ Exhausted /\ Terminated
    /\ calls["rollback"] > 0
    /\ calls["commit"] > calls["rollback"]

ReadFailed == "fetchmany" \in FaultOps

\* C10: a read error is fatal.  Once a pull has raised, no further pull, insert
\* or commit is made and the committed rows stay as they are; the only step
\* left is the outer handler, which writes the terminal error record and exits
\* with status 1.
C10_ReadErrorFatal ==
    /\ [](ReadFailed =>
            /\ pc \in {"except", "done"}
            /\ Terminated =>
                  /\ exitStatus = 1
                  /\ LastLog.ev = "fatal"
            /\ Len(committed) = total)
    /\ [][ReadFailed =>
            /\ calls'["fetchmany"] = calls["fetchmany"]
            /\ calls'["insert"] = calls["insert"]
            /\ calls'["commit"] = calls["commit"]
            /\ calls'["rollback"] = calls["rollback"]
            /\ committed' = committed]_vars

\* the process has ended after a pull raised with two chunks committed before
C10_Witness ==
    /\ Terminated /\ ReadFailed
    /\ calls["commit"] >= 2 /\ Len(committed) >= 2

\* C11: missing source table.  When the catalog lookup returns no columns the
\* run is aborted there: the data select is not issued (the catalog lookup stays
\* the only execute on the source cursor), no chunk is pulled or written, and
\* the process ends with a non-zero status.
C11_MissingTable ==
    columns = 0 =>
        /\ calls["execute"] = 1
        /\ calls["fetchmany"] = 0
        /\ calls["insert"] = 0
        /\ Terminated => Aborted

\* the chunks whose insert or commit raised
WriteFailedChunks == FailedChunks("insert") \cup FailedChunks("commit")

\* the error records that carry chunk number k
ErrorsOf(k) == SelectSeq(log, LAMBDA e : e.ev = "error" /\ e.chunk = k)

\* C12: no error is silently discarded.  At every pull and at the end of the
\* process, every chunk whose write raised has exactly one error record
\* carrying its number; and a process that ended with a fatal error has
\* written exactly one terminal error record, as its last record.
C12_NoErrorDiscarded ==
    (pc = "fetch" \/ Terminated) =>
        /\ \A k \in WriteFailedChunks : Len(ErrorsOf(k)) = 1
        /\ Len(LogOf("error")) = Cardinality(WriteFailedChunks)
        /\ Aborted => (Len(LogOf("fatal")) = 1 /\ LastLog.ev = "fatal")

\* C13: strictly sequential read and write.  A pull is made only when the
\* target transaction is empty and every chunk pulled so far has been resolved
\* by a commit or a rollback; the rows in the target transaction are always
\* rows of the current chunk alone, in cursor order; and a commit makes visible
\* the rows of the current chunk and no others.
C13_Sequential ==
    /\ [](/\ \A r \in Range(pending) : BatchOf(r) = chunk_num
          /\ pending = SubSeq(rows, 1, Len(pending)))
    /\ [][calls'["fetchmany"] > calls["fetchmany"] =>
            /\ pending = <<>>
            /\ Len(LogOf("commit")) + Len(LogOf("error")) = chunk_num]_vars
    /\ [][committed' # committed =>
            /\ committed' = committed \o rows
            /\ \A r \in Range(rows) : BatchOf(r) = chunk_num]_vars

\* the third chunk is being written after one chunk was committed and one
\* rolled back with rows inserted
C13_Witness ==
    /\ pc = "insert" /\ chunk_num = 3 /\ pending # <<>>
    /\ Len(LogOf("commit")) = 1
    /\ \E i \in 1..Len(faults) : faults[i].op = "insert" /\ faults[i].idx >= 1

\* the chunks a commit record was written for
CommittedChunks == {e.chunk : e \in Range(LogOf("commit"))}

RolledBackChunks == {e.chunk : e \in Range(LogOf("error"))}

RECURSIVE SumN(_)
\* the sum of the n fields of a sequence of records
SumN(s) == IF s = <<>> THEN 0 ELSE Head(s).n + SumN(Tail(s))

\* the sum of the sizes announced for the chunks that were committed
CommittedSize ==
    SumN(SelectSeq(log, LAMBDA e : e.ev = "chunk" /\ e.chunk \in CommittedChunks))

\* C14: progress counter.  At every loop head and at the end of the process
\* total is the sum of the sizes of the committed chunks, which is the number
\* of rows visible in the target; total never decreases, grows only in the step
\* that commits a chunk, and no rolled-back chunk is among the committed ones.
C14_ProgressCounter ==
    /\ []((pc = "fetch" \/ Terminated) =>
            /\ total = CommittedSize
            /\ total = Len(committed)
            /\ CommittedChunks \cap RolledBackChunks = {}
            /\ \A r \in Range(committed) : BatchOf(r) \in CommittedChunks)
    /\ [][/\ total' >= total
          /\ total' > total =>
                /\ committed' # committed
                /\ calls'["commit"] = calls["commit"] + 1
                /\ chunk_num \notin RolledBackChunks']_vars

\* the process ended normally with a chunk committed and a chunk rolled back
\* after some of its rows had been inserted
C14_Witness ==
    /\ Terminated /\ exitStatus = 0
    /\ total > 0 /\ total < nrows
    /\ \E i \in 1..Len(faults) : faults[i].op = "insert" /\ faults[i].idx >= 1

\* C15: exactly one outcome per chunk.  At every loop head and at the end of
\* the process every chunk pulled so far has been resolved by a commit or by a
\* rollback, never by both and never by neither; at every loop head the commits
\* and the rollbacks add up to chunk_num; and the chunks are numbered 1, 2, 3,
\* ... in the order they are pulled.
C15_OneOutcomePerBatch ==
    /\ (pc = "fetch" \/ Terminated) =>
          \A k \in 1..chunk_num :
              (k \in CommittedChunks) # (k \in RolledBackChunks)
    /\ pc = "fetch" =>
          Len(LogOf("commit")) + Len(LogOf("error")) = chunk_num
    /\ Len(LogOf("chunk")) = chunk_num
    /\ \A i \in 1..Len(LogOf("chunk")) : LogOf("chunk")[i].chunk = i

\* C16: termination on the empty chunk.  Every run ends; a run that ends
\* without a fatal error has pulled the n = ceil(nrows / chunk_size) non-empty
\* chunks and then the empty one, n + 1 pulls in all, and has read the whole
\* table; and no pull is ever made after a pull that returned the empty chunk.
C16_Termination ==
    /\ <>Terminated
    /\ []((Terminated /\ exitStatus = 0) =>
            /\ calls["fetchmany"] = Ceil(nrows, chunk_size) + 1
            /\ chunk_num = Ceil(nrows, chunk_size)
            /\ srcPos = nrows
            /\ rows = <<>>)
    /\ [][calls'["fetchmany"] > calls["fetchmany"] =>
            (calls["fetchmany"] = 0 \/ rows # <<>>)]_vars

\* a run of three chunks, one of them rolled back, ended after its fourth pull
C16_Witness ==
    /\ Terminated /\ exitStatus = 0
    /\ chunk_num = 3 /\ calls["fetchmany"] = 4
    /\ calls["rollback"] = 1

\* C17: batch size bound.  Every pull asks for chunk_size rows; in every run,
\* with or without write failures, every chunk announced and handed to the
\* inserts has between 1 and chunk_size rows, the inserts and the handler never
\* run on an empty chunk, and every chunk but the last has exactly chunk_size
\* rows: a shorter chunk is followed by no other.
C17_BatchSizeBound ==
    LET sizes == LogOf("chunk") IN
    /\ calls["fetchmany"] > 0 => fetch_size = chunk_size
    /\ pc \in {"insert", "rollback"} =>
          /\ Len(rows) \in 1..chunk_size
          /\ sizes[Len(sizes)].n = Len(rows)
    /\ calls["insert"] + calls["commit"] + calls["rollback"] > 0 => chunk_num > 0
    /\ \A i \in 1..Len(sizes) : sizes[i].n \in 1..chunk_size
    /\ \A i \in 1..(Len(sizes) - 1) : sizes[i].n = chunk_size
    /\ (sizes # <<>> /\ sizes[Len(sizes)].n < chunk_size) => srcPos = nrows

\* the last chunk, shorter than chunk_size, is being written after an earlier
\* chunk was rolled back
C17_Witness ==
    /\ pc = "insert" /\ idx >= 1
    /\ Len(rows) < chunk_size
    /\ chunk_num >= 2
    /\ calls["rollback"] >= 1

====
